---- MODULE Spec2Model ----
(***************************************************************************)
(* A model of torch/_dynamo/codegen.py: the PyCodegen session object, its  *)
(* instruction stream, the top-of-stack / tempvars cache, the graph-output *)
(* slot table and the value reconstruction dispatcher PyCodegen.__call__.  *)
(*                                                                         *)
(* One PyCodegen object is the state.  Every public method is one action;  *)
(* the methods themselves are operators over a session record `s` so that  *)
(* a method that calls other methods (and the reconstruct callbacks that   *)
(* call back into the dispatcher) is evaluated as one whole handler.       *)
(* A Python exception is the field err of the record: once it is set the   *)
(* remaining statements of every enclosing handler are skipped, and what   *)
(* was mutated before the raise stays mutated, as in Python.               *)
(***************************************************************************)
EXTENDS Integers, Sequences, FiniteSets, TLC

VARIABLES version, export, output, top_of_stack, uses, graph_outputs, tempvars,
          co_varnames, co_names, value_from_source, nvars, log

vars == <<version, export, output, top_of_stack, uses, graph_outputs, tempvars,
          co_varnames, co_names, value_from_source, nvars, log>>

----------------------------------------------------------------------------
(* Bounds of the exploration.                                              *)

\* number of public method calls made on one session
MaxSteps == 2

\* deepest stack (values already pushed) tried under load_function_name
MaxOnStack == 2

\* deepest rotation asked of rot_n
MaxRot == 6

\* most values lying on the stack below the rotated ones
MaxDeeper == 2

----------------------------------------------------------------------------
(* Python's None, for top_of_stack, value.source and tempvars entries.     *)

None == "None"

\* tempvars.get(value) of a value that is not a key of the dict
Absent == "<absent>"

NoErr == ""

AssertionError == "AssertionError"

Unsupported == "Unsupported"

\* unimplemented(msg): raises Unsupported with the message
unimplemented(msg) == Unsupported \o ": " \o msg

\* sys.version_info as 100 * major + minor; Generation A is < 311,
\* Generation B is 311 and 312, Generation C is >= 313.
Versions == {309, 311, 312, 313}

----------------------------------------------------------------------------
(* The trace context: the sources and tracked values the tracing engine    *)
(* hands to the session.  Sources are named by their access path.          *)

Sources == {"L:x", "L:y", "L:z", "L:x.f", "G:utils", "G:utils.to_subclass",
            "G:utils.to_numpy_helper"}

SourceTable ==
    "L:x" :> [kind |-> "local", base |-> None, name |-> "x"] @@
    "L:y" :> [kind |-> "local", base |-> None, name |-> "y"] @@
    "L:z" :> [kind |-> "local", base |-> None, name |-> "z"] @@
    "L:x.f" :> [kind |-> "attr", base |-> "L:x", name |-> "f"] @@
    "G:utils" :> [kind |-> "global", base |-> None, name |-> "utils"] @@
    "G:utils.to_subclass" :>
        [kind |-> "attr", base |-> "G:utils", name |-> "to_subclass"] @@
    "G:utils.to_numpy_helper" :>
        [kind |-> "attr", base |-> "G:utils", name |-> "to_numpy_helper"]

\* tx.import_source(utils.__name__)
import_source == "G:utils"

\* AttrSource(base, member)
AttrSource(base, member) ==
    CHOOSE src \in Sources : /\ SourceTable[src].kind = "attr"
                             /\ SourceTable[src].base = base
                             /\ SourceTable[src].name = member

\* The session's overridden_sources dict (constructor argument).
overridden_sources == "L:y" :> "L:x"

Vals == {"c5", "gh", "cS", "t1", "t1b", "t2", "tM", "tf", "sf", "sfT", "np", "un",
         "m1", "m2", "lst", "lsT", "pair", "cm", "bad"}

NoVal(k) == [kind |-> k, source |-> None, mut |-> FALSE, proxy |-> "",
             items |-> <<>>, key |-> <<>>, pyconst |-> ""]

\* kind: which isinstance / is_python_constant test of __call__ the value
\* passes; source: value.source; mut: mutation_type is ValueMutationExisting;
\* proxy: id(value.as_proxy()); items: the values its reconstruct routine
\* asks the dispatcher for; key: module_key split on "."
ValueTable ==
    "c5"   :> [NoVal("const") EXCEPT !.pyconst = "5"] @@
    "gh"   :> [NoVal("const") EXCEPT !.pyconst = "9"] @@
    "cS"   :> [NoVal("const") EXCEPT !.pyconst = "7", !.source = "L:x"] @@
    "t1"   :> [NoVal("tensor") EXCEPT !.proxy = "p1"] @@
    "t1b"  :> [NoVal("tensor") EXCEPT !.proxy = "p1"] @@
    "t2"   :> [NoVal("tensor") EXCEPT !.proxy = "p2"] @@
    "tM"   :> [NoVal("tensor") EXCEPT !.proxy = "p3", !.source = "L:x.f",
                                      !.mut = TRUE] @@
    "tf"   :> [NoVal("tfoverride") EXCEPT !.proxy = "p4"] @@
    "sf"   :> [NoVal("symfloat") EXCEPT !.proxy = "p5"] @@
    "sfT"  :> [NoVal("tensor") EXCEPT !.proxy = "p6"] @@
    "np"   :> [NoVal("numpy") EXCEPT !.proxy = "p7"] @@
    "un"   :> [NoVal("unspec_unwrap") EXCEPT !.proxy = "p8"] @@
    "m1"   :> [NoVal("module") EXCEPT !.key = <<"x", "lin">>] @@
    "m2"   :> [NoVal("module") EXCEPT !.key = <<"lin", "sub">>] @@
    "lst"  :> [NoVal("struct") EXCEPT !.items = <<"c5", "t1">>] @@
    "lsT"  :> [NoVal("struct") EXCEPT !.items = <<"c5">>] @@
    "pair" :> [NoVal("struct") EXCEPT !.items = <<"lsT", "c5", "lsT">>] @@
    "cm"   :> [NoVal("ctxmgr") EXCEPT !.source = "L:y", !.mut = TRUE] @@
    "bad"  :> [NoVal("unsupported") EXCEPT !.items = <<"c5">>]

\* value.as_tensor(tx, torch.float64) of a SymNodeVariable (memoized)
as_tensor(v) == "sfT"

\* value.global_mangled_class_name(tx)
global_mangled_class_name(v) == "cls_" \o v

\* the tempvars dict handed to the constructor
InitTempvars ==
    [v \in Vals |-> IF v \in {"lsT", "cm", "bad"} THEN None
                    ELSE IF v = "gh" THEN "ghost" ELSE Absent]

\* code_options["co_varnames"] at construction; graph_output_var
InitVarnames == {"x", "y", "graph_out_0"}

graph_output_var == "graph_out_0"

\* tx.cell_and_freevars()
cell_and_freevars == {"cell_a", "cell_b"}

\* the n-th name tx.output.new_var() hands out
TmpName(n) == "tmp_" \o ToString(n)

----------------------------------------------------------------------------
(* Instructions: Instruction(opname, arg, argval).  arg is -1 for Python's *)
(* None; argval is "" when not given.  An integer constant of LOAD_CONST   *)
(* is carried in arg with argval "int" (all argvals are strings here).     *)

NoArg == -1

create_instruction(opname, arg, argval) ==
    [opname |-> opname, arg |-> arg, argval |-> argval]

\* instructions whose arg carries the embedded push-null bit
\* (LOAD_GLOBAL 3.11+, LOAD_ATTR 3.12+); create_instruction gives them arg 0
inst_has_op_bit(opname) ==
    \/ opname = "LOAD_GLOBAL" /\ version >= 311
    \/ opname = "LOAD_ATTR" /\ version >= 312

create_bit_instruction(opname, argval) ==
    create_instruction(opname, IF inst_has_op_bit(opname) THEN 0 ELSE NoArg, argval)

create_dup_top == create_instruction("DUP_TOP", NoArg, "")

create_load_const_int(i) == create_instruction("LOAD_CONST", i, "int")

create_load_const(value) == create_instruction("LOAD_CONST", NoArg, value)

create_load_const_unchecked(value) == create_instruction("LOAD_CONST", NoArg, value)

----------------------------------------------------------------------------
(* The session record: the fields of one PyCodegen object, the parts of    *)
(* tx.output it writes (co_varnames, co_names, the new_var counter), the   *)
(* pending exception err, and path, which names the branch of __call__     *)
(* that produced the value of the outermost finished dispatcher call.      *)
(* Every operator returns the record unchanged when an exception is        *)
(* pending, so that a sequence of statements is a nesting of operators.    *)

Failed(s) == s.err # NoErr

Raise(s, e) == IF Failed(s) THEN s ELSE [s EXCEPT !.err = e]

clear_tos(s) == IF Failed(s) THEN s ELSE [s EXCEPT !.top_of_stack = None]

\* self._output.append(inst): a write to the stream that bypasses clear_tos
output_append(s, inst) ==
    IF Failed(s) THEN s ELSE [s EXCEPT !.output = Append(@, inst)]

\* self._output.extend(insts)
output_extend(s, insts) ==
    IF Failed(s) THEN s ELSE [s EXCEPT !.output = @ \o insts]

append_output(s, inst) == clear_tos(output_append(s, inst))

extend_output(s, insts) == clear_tos(output_extend(s, insts))

\* a create_load / create_store without the assert
in_co_varnames_unchecked(s, name) == TRUE

\* the assert of create_load / create_store
in_co_varnames(s, name) == name \in s.co_varnames

\* the assert of create_load_closure / create_load_deref / create_store_deref
in_cell_and_freevars(name) == name \in cell_and_freevars

create_load(name) == create_instruction("LOAD_FAST", NoArg, name)

create_store(name) == create_instruction("STORE_FAST", NoArg, name)

create_load_closure(name) ==
    create_instruction(IF version >= 313 THEN "LOAD_FAST" ELSE "LOAD_CLOSURE",
                       NoArg, name)

create_load_deref(name) == create_instruction("LOAD_DEREF", NoArg, name)

create_store_deref(name) == create_instruction("STORE_DEREF", NoArg, name)

\* the instruction create_load_global returns
create_load_global(name) == create_bit_instruction("LOAD_GLOBAL", name)

\* the effect of create_load_global(name, add) on the session:
\* update_co_names when add, then the assert
create_load_global_effect(s, name, add) ==
    IF Failed(s) THEN s
    ELSE IF add \/ name \in s.co_names
         THEN [s EXCEPT !.co_names = @ \cup {name}]
         ELSE Raise(s, AssertionError)

\* the instruction create_load_attr returns
create_load_attr(name) == create_bit_instruction("LOAD_ATTR", name)

\* create_load_attr registers the name in co_names
create_load_attr_effect(s, name) ==
    IF Failed(s) THEN s ELSE [s EXCEPT !.co_names = @ \cup {name}]

\* output.append(self.create_load(name)): the argument is evaluated first,
\* so a failed assert appends nothing
append_create_load(s, name) ==
    IF Failed(s) THEN s
    ELSE IF in_co_varnames(s, name) THEN output_append(s, create_load(name))
    ELSE Raise(s, AssertionError)

\* output.append(self.create_store(name))
append_create_store(s, name) ==
    IF Failed(s) THEN s
    ELSE IF in_co_varnames(s, name) THEN output_append(s, create_store(name))
    ELSE Raise(s, AssertionError)

\* tx.output.new_var(): a fresh local name, registered in co_varnames
new_var_name(s) == TmpName(s.nvars)

new_var_effect(s) ==
    [s EXCEPT !.nvars = @ + 1, !.co_varnames = @ \cup {TmpName(s.nvars)}]

\* create_call_function(nargs, False)
create_call_function(nargs) ==
    IF version >= 312 THEN <<create_instruction("CALL", nargs, "")>>
    ELSE IF version >= 311
         THEN <<create_instruction("PRECALL", nargs, ""),
                create_instruction("CALL", nargs, "")>>
         ELSE <<create_instruction("CALL_FUNCTION", nargs, "")>>

----------------------------------------------------------------------------
(* Graph-output slots.  graph_outputs is a dict; it is kept here as the    *)
(* sequence of its entries in insertion order, each with its key.          *)

graph_outputs_keys(s) == {s.graph_outputs[i].key : i \in DOMAIN s.graph_outputs}

graph_outputs_get(s, key) ==
    s.graph_outputs[CHOOSE i \in DOMAIN s.graph_outputs : s.graph_outputs[i].key = key]

\* id(value.as_proxy())
graph_outputs_key(value) == ValueTable[value].proxy

\* an allocator that numbers the slots from 1
\* a list that starts with the entry allocated last
graph_output_vars_reversed(s) ==
    [i \in DOMAIN s.graph_outputs |->
        s.graph_outputs[Len(s.graph_outputs) + 1 - i].variable]

\* PyCodegen.graph_output_vars(): the variables of the entries, in the
\* order the dict holds them (insertion order)
graph_output_vars(s) ==
    [i \in DOMAIN s.graph_outputs |-> s.graph_outputs[i].variable]

add_graph_output_from_one(s, value) ==
    IF Failed(s) \/ graph_outputs_key(value) \in graph_outputs_keys(s) THEN s
    ELSE [s EXCEPT !.graph_outputs =
             Append(@, [key |-> graph_outputs_key(value),
                        index |-> Len(s.graph_outputs) + 1,
                        variable |-> value])]

add_graph_output(s, value) ==
    IF Failed(s) \/ graph_outputs_key(value) \in graph_outputs_keys(s) THEN s
    ELSE [s EXCEPT !.graph_outputs =
             Append(@, [key |-> graph_outputs_key(value),
                        index |-> Len(s.graph_outputs),
                        variable |-> value])]

\* graph_outputs[graph_outputs_key].index once add_graph_output(value) ran
index_after_add(s, value) ==
    graph_outputs_get(add_graph_output(s, value), graph_outputs_key(value)).index

\* a load_graph_output that pushes the index before the collection
load_graph_output_index_first(s, index) ==
    output_extend(output_append(s, create_load_const_int(index)),
                  <<create_load(graph_output_var),
                    create_instruction("BINARY_SUBSCR", NoArg, "")>>)

\* PyCodegen.load_graph_output(index)
load_graph_output(s, index) ==
    output_extend(append_create_load(s, graph_output_var),
                  <<create_load_const_int(index),
                    create_instruction("BINARY_SUBSCR", NoArg, "")>>)

add_cache_same_slot(s, value) ==
    IF Failed(s) THEN s
    ELSE append_create_store(
             [new_var_effect(s) EXCEPT !.tempvars[value] = TmpName(0)],
             TmpName(0))

add_cache(s, value) ==
    IF Failed(s) THEN s
    ELSE append_create_store(
             [new_var_effect(s) EXCEPT !.tempvars[value] = new_var_name(s)],
             new_var_name(s))

----------------------------------------------------------------------------
(* bytecode_transformation: null placement and rotation.                   *)

PUSH_NULL == create_instruction("PUSH_NULL", NoArg, "")

inst_bit_free(inst) == inst_has_op_bit(inst.opname) /\ inst.arg % 2 = 0

set_inst_bit(insts, idx) == [insts EXCEPT ![idx].arg = @ + 1]

\* add_push_null(insts) of bytecode_transformation
bytecode_add_push_null(insts) ==
    IF version >= 313
    THEN IF inst_bit_free(insts[Len(insts)]) THEN set_inst_bit(insts, Len(insts))
         ELSE Append(insts, PUSH_NULL)
    ELSE IF version >= 312
    THEN IF inst_bit_free(insts[Len(insts)]) THEN set_inst_bit(insts, Len(insts))
         ELSE IF insts[1].opname = "LOAD_GLOBAL" /\ inst_bit_free(insts[1])
              THEN set_inst_bit(insts, 1)
              ELSE <<PUSH_NULL>> \o insts
    ELSE IF version >= 311
    THEN IF inst_bit_free(insts[1]) THEN set_inst_bit(insts, 1)
         ELSE <<PUSH_NULL>> \o insts
    ELSE insts

\* add_push_null_call_function_ex(insts): only LOAD_GLOBAL may carry the bit
add_push_null_call_function_ex(insts) ==
    IF version < 311 THEN insts
    ELSE IF version >= 313
    THEN IF insts[Len(insts)].opname = "LOAD_GLOBAL" /\ inst_bit_free(insts[Len(insts)])
         THEN set_inst_bit(insts, Len(insts))
         ELSE Append(insts, PUSH_NULL)
    ELSE IF insts[1].opname = "LOAD_GLOBAL" /\ inst_bit_free(insts[1])
         THEN set_inst_bit(insts, 1)
         ELSE <<PUSH_NULL>> \o insts

\* deepest rotate the machine has an instruction for, before 3.10
NativeRotDepth == 4

\* create_rot_n(n) raises AttributeError
create_rot_n_missing(n) == version < 310 /\ n > NativeRotDepth

\* create_rot_n(n): swaps from 3.11 on, one rotate instruction before
create_rot_n(n) ==
    IF n <= 1 THEN <<>>
    ELSE IF version >= 311
         THEN [i \in 1..(n - 1) |-> create_instruction("SWAP", n + 1 - i, "")]
         ELSE <<create_instruction("ROT_N", n, "")>>

\* the constant rot_n_helper(n) builds
rot_n_helper(n) == "rot_n_helper"

\* a fallback that swaps the two top values once more after unpacking
rot_n_swapped_back(n) ==
    IF ~create_rot_n_missing(n) THEN create_rot_n(n)
    ELSE <<create_instruction("BUILD_TUPLE", n, ""),
           create_load_const_unchecked(rot_n_helper(n))>>
         \o create_rot_n(2)
         \o <<create_instruction("CALL_FUNCTION_EX", 0, ""),
              create_instruction("UNPACK_SEQUENCE", n, "")>>
         \o create_rot_n(2)

\* PyCodegen.rot_n(n): the native rotation, or the fallback when
\* create_rot_n raises AttributeError
rot_n(n) ==
    IF ~create_rot_n_missing(n) THEN create_rot_n(n)
    ELSE <<create_instruction("BUILD_TUPLE", n, ""),
           create_load_const_unchecked(rot_n_helper(n))>>
         \o create_rot_n(2)
         \o <<create_instruction("CALL_FUNCTION_EX", 0, ""),
              create_instruction("UNPACK_SEQUENCE", n, "")>>

\* a splice that puts the generated instructions in front of the stream
splice_push_null_front(s, old_len, call_function_ex) ==
    IF Failed(s) THEN s
    ELSE [s EXCEPT
            !.output = (IF call_function_ex
                        THEN add_push_null_call_function_ex(SubSeq(@, old_len + 1, Len(@)))
                        ELSE bytecode_add_push_null(SubSeq(@, old_len + 1, Len(@))))
                       \o SubSeq(@, 1, old_len),
            !.top_of_stack = IF version >= 313 THEN None ELSE @]

\* lines 112-121 of add_push_null: cut the instructions gen_fn added out of
\* the stream, add the null to them and put them back; s is the session
\* after gen_fn ran
splice_push_null(s, old_len, call_function_ex) ==
    IF Failed(s) THEN s
    ELSE [s EXCEPT
            !.output = SubSeq(@, 1, old_len)
                       \o (IF call_function_ex
                           THEN add_push_null_call_function_ex(SubSeq(@, old_len + 1, Len(@)))
                           ELSE bytecode_add_push_null(SubSeq(@, old_len + 1, Len(@)))),
            !.top_of_stack = IF version >= 313 THEN None ELSE @]

----------------------------------------------------------------------------
(* The dispatcher PyCodegen.__call__ and the reconstruct callbacks of the  *)
(* trace context, which call back into it.                                 *)

RECURSIVE __call__(_, _, _)
RECURSIVE call_reconstruct(_, _)
RECURSIVE foreach(_, _)

\* a load_function_name that rotates once instead of twice
load_function_name_one_rot(fn_name, push_null, num_on_stack) ==
    IF push_null /\ version >= 311
    THEN bytecode_add_push_null(<<create_load_global(fn_name)>>)
         \o (IF num_on_stack > 0 THEN rot_n(num_on_stack + 2) ELSE <<>>)
    ELSE <<create_load_global(fn_name)>> \o rot_n(num_on_stack + 1)

\* the list load_function_name(fn_name, push_null, num_on_stack) returns
load_function_name(fn_name, push_null, num_on_stack) ==
    IF push_null /\ version >= 311
    THEN bytecode_add_push_null(<<create_load_global(fn_name)>>)
         \o (IF num_on_stack > 0
             THEN rot_n(num_on_stack + 2) \o rot_n(num_on_stack + 2)
             ELSE <<>>)
    ELSE <<create_load_global(fn_name)>> \o rot_n(num_on_stack + 1)

load_import_from(s, object_name) ==
    __call__(s, AttrSource(import_source, object_name), TRUE)

\* value.reconstruct(codegen) of a source
reconstruct_source(s, src) ==
    CASE SourceTable[src].kind = "local" ->
           IF in_co_varnames(s, SourceTable[src].name)
           THEN append_output(s, create_load(SourceTable[src].name))
           ELSE Raise(s, AssertionError)
      [] SourceTable[src].kind = "global" ->
           append_output(create_load_global_effect(s, SourceTable[src].name, TRUE),
                         create_load_global(SourceTable[src].name))
      [] SourceTable[src].kind = "attr" ->
           extend_output(
               create_load_attr_effect(__call__(s, SourceTable[src].base, TRUE),
                                       SourceTable[src].name),
               <<create_load_attr(SourceTable[src].name)>>)

\* the last statements of a tracked value's reconstruct, after its items
build_value(s, value) ==
    IF Failed(s) THEN s
    ELSE IF ValueTable[value].kind = "unsupported"
         THEN Raise(s, "NotImplementedError")
         ELSE append_output(s, create_instruction("BUILD_LIST",
                                   Len(ValueTable[value].items), ""))

\* value.reconstruct(codegen) of a tracked value that reaches the last
\* branch of __call__: a container asks for its items and builds itself;
\* a value of an unsupported kind raises NotImplementedError
reconstruct_value(s, value) ==
    build_value(foreach(s, ValueTable[value].items), value)

call_reconstruct(s, value) ==
    IF Failed(s) THEN s
    ELSE IF value \in Sources THEN reconstruct_source(s, value)
    ELSE reconstruct_value(s, value)

foreach(s, items) ==
    IF Failed(s) \/ items = <<>> THEN s
    ELSE foreach(__call__(s, Head(items), TRUE), Tail(items))

\* gen_fn of the SymNodeVariable / need_unwrap branches
gen_fn_item(s, index) ==
    output_append(create_load_attr_effect(load_graph_output(s, index), "item"),
                  create_load_attr("item"))

\* code.co_freevars of the code templates handed to
\* make_function_with_closure
Codes == {"code2", "code1", "codeX", "code0"}

co_freevars(code) ==
    CASE code = "code2" -> <<"cell_a", "cell_b">>
      [] code = "code1" -> <<"cell_b">>
      [] code = "codeX" -> <<"cell_a", "nope">>
      [] code = "code0" -> <<>>

RECURSIVE load_closures(_, _)

\* for var in freevars: assert var in self.cell_and_freevars();
\* output.append(self.create_load_closure(var))
load_closures(s, freevars) ==
    IF Failed(s) \/ freevars = <<>> THEN s
    ELSE load_closures(IF in_cell_and_freevars(Head(freevars))
                       THEN output_append(s, create_load_closure(Head(freevars)))
                       ELSE Raise(s, AssertionError),
                       Tail(freevars))

\* gen_fn of make_function_with_closure
closure_gen_fn(s, fn_name, code) ==
    output_extend(
        load_closures(s, co_freevars(code)),
        <<create_instruction("BUILD_TUPLE", Len(co_freevars(code)), ""),
          create_load_const(code)>>
        \o (IF version < 311 THEN <<create_load_const(fn_name)>> ELSE <<>>)
        \o (IF version >= 313
            THEN <<create_instruction("MAKE_FUNCTION", NoArg, ""),
                   create_instruction("SET_FUNCTION_ATTRIBUTE", 8, "")>>
            ELSE <<create_instruction("MAKE_FUNCTION", 8, "")>>))

\* The callables handed to add_push_null: a record naming what gen_fn does.
GenImport(object_name) == [fn |-> "import", name |-> object_name, index |-> 0]

GenItem(index) == [fn |-> "item", name |-> "", index |-> index]

GenValue(v) == [fn |-> "value", name |-> v, index |-> 0]

GenClosure(fn_name, code) ==
    [fn |-> "closure", name |-> code, index |-> 0, fn_name |-> fn_name]

\* gen_fn()
run_gen_fn(s, gen_fn) ==
    CASE gen_fn.fn = "import" -> load_import_from(s, gen_fn.name)
      [] gen_fn.fn = "item" -> gen_fn_item(s, gen_fn.index)
      [] gen_fn.fn = "value" -> __call__(s, gen_fn.name, TRUE)
      [] gen_fn.fn = "closure" -> closure_gen_fn(s, gen_fn.fn_name, gen_fn.name)

\* an add_push_null that cuts the stream one instruction too early
add_push_null_off_by_one(s, gen_fn, call_function_ex) ==
    splice_push_null(
        run_gen_fn(IF version < 313 THEN clear_tos(s) ELSE s, gen_fn),
        IF Len(s.output) > 0 THEN Len(s.output) - 1 ELSE 0, call_function_ex)

\* an add_push_null that runs gen_fn without clearing top_of_stack first
add_push_null_no_clear(s, gen_fn, call_function_ex) ==
    splice_push_null(run_gen_fn(s, gen_fn), Len(s.output), call_function_ex)

\* PyCodegen.add_push_null(gen_fn, call_function_ex)
add_push_null(s, gen_fn, call_function_ex) ==
    splice_push_null(
        run_gen_fn(IF version < 313 THEN clear_tos(s) ELSE s, gen_fn),
        Len(s.output), call_function_ex)

\* a closure constructor that never asks for the null
make_function_with_closure_no_null(s, fn_name, code, push_null, num_on_stack) ==
    IF Failed(s) THEN s
    ELSE IF co_freevars(code) = <<>> THEN Raise(s, AssertionError)
    ELSE clear_tos(
             IF push_null /\ version >= 311
             THEN output_extend(closure_gen_fn(s, fn_name, code),
                                rot_n(num_on_stack + 2) \o rot_n(num_on_stack + 2))
             ELSE output_extend(closure_gen_fn(s, fn_name, code),
                                rot_n(num_on_stack + 1)))

\* PyCodegen.make_function_with_closure(fn_name, code, push_null, num_on_stack)
make_function_with_closure(s, fn_name, code, push_null, num_on_stack) ==
    IF Failed(s) THEN s
    ELSE IF co_freevars(code) = <<>> THEN Raise(s, AssertionError)
    ELSE clear_tos(
             IF push_null /\ version >= 311
             THEN output_extend(add_push_null(s, GenClosure(fn_name, code), FALSE),
                                rot_n(num_on_stack + 2) \o rot_n(num_on_stack + 2))
             ELSE output_extend(closure_gen_fn(s, fn_name, code),
                                rot_n(num_on_stack + 1)))

\* a dispatcher that swallows the NotImplementedError and carries on
catch_not_implemented_swallow(s, value) ==
    IF s.err = "NotImplementedError" THEN [s EXCEPT !.err = NoErr] ELSE s

\* except NotImplementedError: unimplemented(f"reconstruct: {value}")
catch_not_implemented(s, value) ==
    IF s.err = "NotImplementedError"
    THEN [s EXCEPT !.err = unimplemented("reconstruct: " \o value)]
    ELSE s

\* a dispatcher that stores the reconstructed value without duplicating it
cache_reconstructed_no_dup(s, value, allow_cache) ==
    IF Failed(s) THEN s
    ELSE IF allow_cache /\ s.tempvars[value] # Absent
         THEN add_cache(s, value)
         ELSE s

\* if allow_cache and value in self.tempvars: DUP_TOP, add_cache
cache_reconstructed(s, value, allow_cache) ==
    IF Failed(s) THEN s
    ELSE IF allow_cache /\ s.tempvars[value] # Absent
         THEN add_cache(output_append(s, create_dup_top), value)
         ELSE s

\* the module-object branch: s is the session before it, parts is
\* module_key.split(".")
load_module(s, parts) ==
    IF in_co_varnames(s, parts[1])
    THEN output_extend(
             [output_append(s, create_load(parts[1]))
                 EXCEPT !.co_names = @ \cup {parts[i] : i \in 2..Len(parts)}],
             [i \in 1..(Len(parts) - 1) |-> create_load_attr(parts[i + 1])])
    ELSE output_extend(
             [output_append(s, create_load_const_unchecked("root"))
                 EXCEPT !.co_names = @ \cup {parts[i] : i \in 1..Len(parts)}],
             [i \in 1..Len(parts) |-> create_load_attr(parts[i])])

\* the branches of __call__ from line 193 on, without the final
\* self.top_of_stack = value
emit_by_kind(s, value, allow_cache) ==
    CASE ValueTable[value].kind = "const" ->
           output_append(s, create_load_const(ValueTable[value].pyconst))
      [] ValueTable[value].kind = "tfoverride" ->
           output_extend(
               output_append(
                   create_load_global_effect(
                       load_graph_output(
                           add_push_null(add_graph_output(s, value),
                                         GenImport("to_subclass"), FALSE),
                           index_after_add(s, value)),
                       global_mangled_class_name(value), TRUE),
                   create_load_global(global_mangled_class_name(value))),
               create_call_function(2))
      [] ValueTable[value].kind = "symfloat" /\ ~export ->
           output_extend(
               add_push_null(add_graph_output(s, as_tensor(value)),
                             GenItem(index_after_add(s, as_tensor(value))), FALSE),
               create_call_function(0))
      [] ValueTable[value].kind = "numpy" ->
           output_extend(
               load_graph_output(
                   add_push_null(add_graph_output(s, value),
                                 GenImport("to_numpy_helper"), FALSE),
                   index_after_add(s, value)),
               create_call_function(1))
      [] ValueTable[value].kind = "unspec_unwrap" ->
           output_extend(
               add_push_null(add_graph_output(s, value),
                             GenItem(index_after_add(s, value)), FALSE),
               create_call_function(0))
      [] \/ ValueTable[value].kind = "tensor"
         \/ ValueTable[value].kind = "symfloat" /\ export ->
           load_graph_output(add_graph_output(s, value), index_after_add(s, value))
      [] ValueTable[value].kind = "module" ->
           load_module(s, ValueTable[value].key)
      [] OTHER ->
           cache_reconstructed(
               catch_not_implemented(
                   call_reconstruct([s EXCEPT !.uses[value] = @ + 1], value),
                   value),
               value, allow_cache)

\* a dispatcher that takes the top-of-stack shortcut when caching is off
tos_hit_inverted(s, value, allow_cache) == ~allow_cache /\ s.top_of_stack = value

\* if allow_cache: if self.top_of_stack is value
tos_hit(s, value, allow_cache) == allow_cache /\ s.top_of_stack = value

\* a dispatcher that loads an assigned temp slot whether or not caching is
\* allowed
tempvars_hit_always(s, value, allow_cache) ==
    s.tempvars[value] \notin {Absent, None}

\* if allow_cache: if self.tempvars.get(value) is not None
tempvars_hit(s, value, allow_cache) ==
    allow_cache /\ s.tempvars[value] \notin {Absent, None}

\* a dispatcher that forgets the ValueMutationExisting test
codegen_from_source_no_mut(s, value, allow_cache) ==
    /\ ValueTable[value].source # None
    /\ allow_cache
    /\ ValueTable[value].kind # "ctxmgr"
    /\ s.value_from_source

\* a dispatcher without the exception for functions decorated by a
\* contextlib context manager
codegen_from_source_any_kind(s, value, allow_cache) ==
    /\ ValueTable[value].source # None
    /\ allow_cache
    /\ (ValueTable[value].mut \/ s.value_from_source)

\* the two conditions under which __call__ returns self(value.source)
codegen_from_source(s, value, allow_cache) ==
    /\ ValueTable[value].source # None
    /\ allow_cache
    /\ ValueTable[value].kind # "ctxmgr"
    /\ (ValueTable[value].mut \/ s.value_from_source)

\* which branch of emit_by_kind a value takes
kind_path(value) ==
    CASE ValueTable[value].kind = "const" -> "const"
      [] ValueTable[value].kind \in
           {"tfoverride", "symfloat", "tensor", "unspec_unwrap", "numpy"} -> "graph"
      [] ValueTable[value].kind = "module" -> "module"
      [] OTHER -> "struct"

\* self.clear_tos(); return  (the end of the source branch)
finish_source(s) ==
    IF Failed(s) THEN s ELSE [s EXCEPT !.top_of_stack = None, !.path = "source"]

\* a dispatcher that forgets to record what it left on the stack
finish_value_tos_unset(s, value, path) ==
    IF Failed(s) THEN s ELSE [s EXCEPT !.path = path]

\* self.top_of_stack = value  (line 160 and line 277)
finish_value(s, value, path) ==
    IF Failed(s) THEN s ELSE [s EXCEPT !.top_of_stack = value, !.path = path]

\* a dispatcher that ignores overridden_sources
__call___no_override(s, value, allow_cache) ==
    IF Failed(s) THEN s
    ELSE IF value \in Sources
    THEN finish_source(call_reconstruct(s, value))
    ELSE IF tos_hit(s, value, allow_cache)
    THEN [output_append(s, create_dup_top) EXCEPT !.path = "dup"]
    ELSE IF tempvars_hit(s, value, allow_cache)
    THEN finish_value(append_create_load(s, s.tempvars[value]), value, "temp")
    ELSE IF codegen_from_source(s, value, allow_cache)
    THEN __call__(s, ValueTable[value].source, TRUE)
    ELSE finish_value(emit_by_kind(s, value, allow_cache), value, kind_path(value))

\* PyCodegen.__call__(value, allow_cache)
__call__(s, value, allow_cache) ==
    IF Failed(s) THEN s
    ELSE IF value \in Sources
    THEN finish_source(
             call_reconstruct(s, IF value \in DOMAIN overridden_sources
                                 THEN overridden_sources[value] ELSE value))
    ELSE IF tos_hit(s, value, allow_cache)
    THEN [output_append(s, create_dup_top) EXCEPT !.path = "dup"]
    ELSE IF tempvars_hit(s, value, allow_cache)
    THEN finish_value(append_create_load(s, s.tempvars[value]), value, "temp")
    ELSE IF codegen_from_source(s, value, allow_cache)
    THEN __call__(s, ValueTable[value].source, TRUE)
    ELSE finish_value(emit_by_kind(s, value, allow_cache), value, kind_path(value))

\* a restore_stack that puts the mode back only when foreach returned
restore_stack_no_finally(s, stack_values, flag) ==
    IF Failed(foreach([s EXCEPT !.value_from_source = @ /\ flag], stack_values))
    THEN foreach([s EXCEPT !.value_from_source = @ /\ flag], stack_values)
    ELSE [foreach([s EXCEPT !.value_from_source = @ /\ flag], stack_values)
             EXCEPT !.value_from_source = s.value_from_source]

\* restore_stack(stack_values, value_from_source=flag)
restore_stack(s, stack_values, flag) ==
    [foreach([s EXCEPT !.value_from_source = @ /\ flag], stack_values)
        EXCEPT !.value_from_source = s.value_from_source]

\* restore_stack(..., value_from_source=outer) whose emission is a callback
\* that calls restore_stack(stack_values, value_from_source=inner)
restore_stack_nested(s, stack_values, outer, inner) ==
    [restore_stack([s EXCEPT !.value_from_source = @ /\ outer], stack_values, inner)
        EXCEPT !.value_from_source = s.value_from_source]

----------------------------------------------------------------------------
(* The operand stack of the target machine, for the instructions that      *)
(* place a callable: a stack is a sequence, top last; a stack cell is a    *)
(* sequence of names, of length 1 for a plain object.                      *)

Atom(name) == <<name>>

NULL == Atom("NULL")

Reverse(seq) == [i \in 1..Len(seq) |-> seq[Len(seq) + 1 - i]]

\* the top n cells, bottom first
TopN(stack, n) == SubSeq(stack, Len(stack) - n + 1, Len(stack))

\* the stack without its top n cells
DropN(stack, n) == SubSeq(stack, 1, Len(stack) - n)

RECURSIVE Flatten(_)

Flatten(cells) == IF cells = <<>> THEN <<>> ELSE Head(cells) \o Flatten(Tail(cells))

\* a native rotate of depth n: the top cell goes below the next n - 1
Rotate(stack, n) ==
    DropN(stack, n) \o <<stack[Len(stack)]>> \o SubSeq(stack, Len(stack) - n + 1, Len(stack) - 1)

\* the tuple the function built by rot_n_helper(n) returns for *args
RotHelperCall(args) ==
    Reverse(<<args[Len(args)]>> \o SubSeq(args, 1, Len(args) - 1))

ExecInst(inst, stack) ==
    CASE inst.opname = "PUSH_NULL" -> Append(stack, NULL)
      [] inst.opname = "LOAD_GLOBAL" ->
           IF inst.arg = 1
           THEN IF version >= 313 THEN stack \o <<Atom(inst.argval), NULL>>
                ELSE stack \o <<NULL, Atom(inst.argval)>>
           ELSE Append(stack, Atom(inst.argval))
      [] inst.opname = "LOAD_CONST" -> Append(stack, Atom(inst.argval))
      [] inst.opname = "SWAP" ->
           [stack EXCEPT ![Len(stack)] = stack[Len(stack) + 1 - inst.arg],
                         ![Len(stack) + 1 - inst.arg] = stack[Len(stack)]]
      [] inst.opname = "ROT_N" -> Rotate(stack, inst.arg)
      [] inst.opname = "BUILD_TUPLE" ->
           Append(DropN(stack, inst.arg), Flatten(TopN(stack, inst.arg)))
      [] inst.opname = "CALL_FUNCTION_EX" ->
           Append(DropN(stack, 2), RotHelperCall(stack[Len(stack)]))
      [] inst.opname = "UNPACK_SEQUENCE" ->
           DropN(stack, 1)
           \o [i \in 1..inst.arg |-> Atom(stack[Len(stack)][inst.arg + 1 - i])]

RECURSIVE Exec(_, _)

Exec(insts, stack) ==
    IF insts = <<>> THEN stack
    ELSE Exec(Tail(insts), ExecInst(Head(insts), stack))

\* k values already on the stack, pushed in this order
Args(k) == [i \in 1..k |-> Atom("a" \o ToString(i))]

----------------------------------------------------------------------------
(* The session as state.  log is the sequence of public method calls made  *)
(* so far, each with its arguments, the exception it ended with, the       *)
(* dispatcher branch taken, the length of the stream when it started and   *)
(* the instruction list it returned (for the methods that return one).     *)

Session ==
    [output |-> output, top_of_stack |-> top_of_stack, uses |-> uses,
     graph_outputs |-> graph_outputs, tempvars |-> tempvars,
     co_varnames |-> co_varnames, co_names |-> co_names,
     value_from_source |-> value_from_source, nvars |-> nvars,
     err |-> NoErr, path |-> ""]

Entry(op, v, ac, n, s, ret) ==
    [op |-> op, v |-> v, ac |-> ac, n |-> n, err |-> s.err, path |-> s.path,
     at |-> Len(output), tos0 |-> top_of_stack,
     slot0 |-> IF v \in Vals THEN tempvars[v] ELSE Absent, ret |-> ret]

Commit(s, op, v, ac, n, ret) ==
    /\ Len(log) < MaxSteps
    /\ output' = s.output
    /\ top_of_stack' = s.top_of_stack
    /\ uses' = s.uses
    /\ graph_outputs' = s.graph_outputs
    /\ tempvars' = s.tempvars
    /\ co_varnames' = s.co_varnames
    /\ co_names' = s.co_names
    /\ value_from_source' = s.value_from_source
    /\ nvars' = s.nvars
    /\ log' = Append(log, Entry(op, v, ac, n, s, ret))
    /\ UNCHANGED <<version, export>>

Init ==
    /\ version \in Versions
    /\ export \in BOOLEAN
    /\ output = <<>>
    /\ top_of_stack = None
    /\ uses = [v \in Vals |-> 0]
    /\ graph_outputs = <<>>
    /\ tempvars = InitTempvars
    /\ co_varnames = InitVarnames
    /\ co_names = {}
    /\ value_from_source = TRUE
    /\ nvars = 0
    /\ log = <<>>

\* the values and sources the tracing engine asks the dispatcher for
CallVals == Vals \ {"sfT", "gh"}

\* codegen(value, allow_cache) on a tracked value
Call(v, ac) == Commit(__call__(Session, v, ac), "call", v, ac, 0, <<>>)

\* codegen(source)
CallSource(src) == Commit(__call__(Session, src, TRUE), "call", src, TRUE, 0, <<>>)

POP_TOP == create_instruction("POP_TOP", NoArg, "")

\* codegen.append_output(inst), e.g. from pop_top()
AppendOutput == Commit(append_output(Session, POP_TOP), "append_output", None, FALSE, 0, <<>>)

\* codegen.extend_output(insts), e.g. from call_function(nargs, False)
ExtendOutput(nargs) ==
    Commit(extend_output(Session, create_call_function(nargs)),
           "extend_output", None, FALSE, nargs, <<>>)

ClearTos == Commit(clear_tos(Session), "clear_tos", None, FALSE, 0, <<>>)

\* codegen.restore_stack([v], value_from_source=flag); the entry's n is 1
\* when flag is true
RestoreStack(v, flag) ==
    Commit(restore_stack(Session, <<v>>, flag), "restore_stack", v, TRUE,
           IF flag THEN 1 ELSE 0, <<>>)

AddGraphOutput(v) ==
    Commit(add_graph_output(Session, v), "add_graph_output", v, FALSE, 0, <<>>)

LoadGraphOutput(index) ==
    Commit(load_graph_output(Session, index), "load_graph_output", None, FALSE, index, <<>>)

AddCache(v) == Commit(add_cache(Session, v), "add_cache", v, FALSE, 0, <<>>)

\* codegen.add_push_null(gen_fn, call_function_ex)
AddPushNull(gen_fn, call_function_ex) ==
    Commit(add_push_null(Session, gen_fn, call_function_ex), "add_push_null",
           gen_fn.name, call_function_ex, gen_fn.index, <<>>)

\* codegen.load_function_name(fn_name, push_null, num_on_stack): registers
\* the global name and returns the instructions
LoadFunctionName(fn_name, push_null, num_on_stack) ==
    Commit(create_load_global_effect(Session, fn_name, TRUE), "load_function_name",
           fn_name, push_null, num_on_stack,
           load_function_name(fn_name, push_null, num_on_stack))

\* codegen.create_load(name) / create_store(name): the instruction or the
\* failed assert; the session is not written
CreateLocal(op, name) ==
    Commit(IF in_co_varnames(Session, name) THEN Session
           ELSE Raise(Session, AssertionError),
           op, name, FALSE, 0,
           IF ~in_co_varnames(Session, name) THEN <<>>
           ELSE IF op = "create_load" THEN <<create_load(name)>>
           ELSE <<create_store(name)>>)

\* codegen.create_load_closure(name) / create_load_deref / create_store_deref
CreateCell(op, name) ==
    Commit(IF in_cell_and_freevars(name) THEN Session
           ELSE Raise(Session, AssertionError),
           op, name, FALSE, 0,
           IF ~in_cell_and_freevars(name) THEN <<>>
           ELSE IF op = "create_load_closure" THEN <<create_load_closure(name)>>
           ELSE IF op = "create_load_deref" THEN <<create_load_deref(name)>>
           ELSE <<create_store_deref(name)>>)

\* codegen.store(varname): append_output(create_store(varname))
Store(varname) ==
    Commit(IF in_co_varnames(Session, varname)
           THEN append_output(Session, create_store(varname))
           ELSE Raise(Session, AssertionError),
           "store", varname, FALSE, 0, <<>>)

\* codegen.load_deref(varname): append_output(create_load_deref(varname))
LoadDeref(varname) ==
    Commit(IF in_cell_and_freevars(varname)
           THEN append_output(Session, create_load_deref(varname))
           ELSE Raise(Session, AssertionError),
           "load_deref", varname, FALSE, 0, <<>>)

\* restore_stack([v], value_from_source=inner) called while a
\* restore_stack(..., value_from_source=outer) is emitting; the entry's ac
\* is outer and its n is 1 when inner is true
RestoreStackNested(v, outer, inner) ==
    Commit(restore_stack_nested(Session, <<v>>, outer, inner),
           "restore_stack_nested", v, outer, IF inner THEN 1 ELSE 0, <<>>)

\* codegen.rot_n(n): returns the instructions, the session is not written
RotN(n) == Commit(Session, "rot_n", None, FALSE, n, rot_n(n))

\* codegen.make_function_with_closure("fn", code, push_null, num_on_stack)
MakeFunctionWithClosure(code, push_null, num_on_stack) ==
    Commit(make_function_with_closure(Session, "fn", code, push_null, num_on_stack),
           "make_function_with_closure", code, push_null, num_on_stack, <<>>)

\* The dispatcher, the stream and the cache and graph-output helpers.
Next ==
    \/ \E v \in CallVals, ac \in BOOLEAN : Call(v, ac)
    \/ \E src \in Sources : CallSource(src)
    \/ AppendOutput
    \/ \E nargs \in {0} : ExtendOutput(nargs)
    \/ ClearTos
    \/ \E v \in {"cS", "tM", "lsT", "cm"}, flag \in BOOLEAN : RestoreStack(v, flag)
    \/ \E v \in {"t1", "t1b", "t2"} : AddGraphOutput(v)
    \/ \E index \in 0..1 : LoadGraphOutput(index)
    \/ \E v \in {"tM", "lst"} : AddCache(v)

\* names tried against the symbol sets: a declared one and an undeclared one
LocalNames == {"x", "nope"}

CellNames == {"cell_a", "nope"}

\* The symbol resolver: the create_* methods and the methods that emit
\* their instruction, with the dispatcher for the temp-slot load.
NextSym ==
    \/ \E op \in {"create_load", "create_store"}, name \in LocalNames :
           CreateLocal(op, name)
    \/ \E op \in {"create_load_closure", "create_load_deref", "create_store_deref"},
          name \in CellNames : CreateCell(op, name)
    \/ \E name \in LocalNames \cup {"tmp_0"} : Store(name)
    \/ \E name \in CellNames : LoadDeref(name)
    \/ \E v \in {"gh", "lsT", "c5", "m1"}, ac \in BOOLEAN : Call(v, ac)
    \/ \E src \in {"L:x", "L:z"} : CallSource(src)
    \/ \E v \in {"lst"} : AddCache(v)

SpecSym == Init /\ [][NextSym]_vars

\* The calling-convention adapter: null placement and callable pushing,
\* with a few dispatcher calls that set top_of_stack in between.
NextNull ==
    \/ \E gen_fn \in {GenImport("to_subclass"), GenItem(0), GenValue("c5"),
                      GenValue("tf"), GenValue("L:x"), GenValue("L:x.f")},
          call_function_ex \in BOOLEAN : AddPushNull(gen_fn, call_function_ex)
    \/ \E push_null \in BOOLEAN, num_on_stack \in 0..MaxOnStack :
           LoadFunctionName("fn", push_null, num_on_stack)
    \/ \E v \in {"c5", "t1"}, ac \in BOOLEAN : Call(v, ac)
    \/ AppendOutput

SpecNull == Init /\ [][NextNull]_vars

\* The rotation helper and the closure constructor.
NextFn ==
    \/ \E n \in 2..MaxRot : RotN(n)
    \/ \E code \in Codes, push_null \in BOOLEAN, num_on_stack \in 0..MaxOnStack :
           MakeFunctionWithClosure(code, push_null, num_on_stack)
    \/ \E v \in {"c5", "t1"}, ac \in BOOLEAN : Call(v, ac)
    \/ AppendOutput

SpecFn == Init /\ [][NextFn]_vars

\* Prefer-source mode: restore_stack, alone and nested, on values that are
\* emitted differently with the mode on and off and on one that fails.
NextMode ==
    \/ \E v \in {"cS", "tM", "lsT", "cm", "bad"}, flag \in BOOLEAN : RestoreStack(v, flag)
    \/ \E v \in {"cS", "bad"}, outer \in BOOLEAN, inner \in BOOLEAN :
           RestoreStackNested(v, outer, inner)
    \/ \E v \in {"cS", "c5"}, ac \in BOOLEAN : Call(v, ac)
    \/ ClearTos

SpecMode == Init /\ [][NextMode]_vars

\* Dispatcher calls only: values registered for caching (alone, nested
\* twice in one container, and next to another registered value), values
\* that are not, and a name handed in by an earlier pass; add_cache is
\* never called from outside the dispatcher.
NextTemp ==
    \/ \E v \in {"lsT", "pair", "cm", "lst", "c5", "bad", "gh"}, ac \in BOOLEAN :
           Call(v, ac)
    \/ \E src \in {"L:x"} : CallSource(src)
    \/ \E v \in {"lsT", "cm"}, flag \in BOOLEAN : RestoreStack(v, flag)
    \/ ClearTos

SpecTemp == Init /\ [][NextTemp]_vars

\* The graph-output collection: direct requests, two of them for one
\* identity key, direct loads, and dispatcher calls that allocate entries
\* themselves, at top level and for an item of a container.
NextOut ==
    \/ \E v \in {"t1", "t1b", "t2"} : AddGraphOutput(v)
    \/ \E index \in 0..1 : LoadGraphOutput(index)
    \/ \E v \in {"t1", "t1b", "t2", "sf", "np", "lst", "c5"}, ac \in BOOLEAN :
           Call(v, ac)
    \/ ClearTos

SpecOut == Init /\ [][NextOut]_vars

Spec == Init /\ [][Next]_vars

last == log[Len(log)]

----------------------------------------------------------------------------
(* Reading the log.                                                        *)

\* the step being taken is a public method call
Stepped == Len(log') = Len(log) + 1

\* the entry is a dispatcher call on a tracked value: codegen(v, ac), or
\* the codegen(v) restore_stack([v]) makes
IsDispatch(e) == e.op \in {"call", "restore_stack"} /\ e.v \in Vals

Ok(e) == e.err = NoErr

\* value_from_source while the entry's dispatcher call ran
ModeOn(e) == e.op = "call" \/ e.n = 1

\* the instructions the i-th logged call left in the stream
Emitted(i) ==
    SubSeq(output, log[i].at + 1,
           IF i < Len(log) THEN log[i + 1].at ELSE Len(output))

HasOrigin(v) == ValueTable[v].source # None

MutationExisting(v) == ValueTable[v].mut

----------------------------------------------------------------------------
(* C1: cache correctness.                                                  *)

\* two successive dispatcher calls on the same tracked value, caching on
Repeated(e1, e2) ==
    /\ IsDispatch(e1) /\ e1.ac /\ Ok(e1)
    /\ IsDispatch(e2) /\ e2.ac /\ e2.v = e1.v

\* C1 as stated: for every tracked value, of any kind and with or without
\* an origin, the second of two successive dispatcher calls with caching
\* enabled appends exactly one DUP_TOP and nothing else.
C1_AnyValue_SecondCallDups ==
    [][(Len(log) >= 1 /\ Stepped /\ Repeated(last, last'))
         => output' = Append(output, create_dup_top)]_vars

\* C1 amended: when the first of two successive dispatcher calls on a
\* tracked value with caching enabled did not emit the value from its
\* source, the second call succeeds, appends exactly one DUP_TOP and
\* changes nothing else of the session.
C1_NonSourceValue_SecondCallDups ==
    [][(Len(log) >= 1 /\ Stepped /\ Repeated(last, last') /\ last.path # "source")
         => /\ output' = Append(output, create_dup_top)
            /\ Ok(last') /\ last'.path = "dup"
            /\ top_of_stack' = last.v
            /\ UNCHANGED <<uses, graph_outputs, tempvars, nvars>>]_vars

\* a value rebuilt structurally and immediately asked for again
C1_Witness ==
    /\ Len(log) >= 2
    /\ Repeated(log[Len(log) - 1], last)
    /\ log[Len(log) - 1].path = "struct"
    /\ last.path = "dup"
    /\ output[Len(output)] = create_dup_top

----------------------------------------------------------------------------
(* C2: aliasing preservation.                                              *)

\* C2 as stated: a value with an origin and the mutation flag set is emitted
\* through its origin by every dispatcher call with caching enabled,
\* whatever top_of_stack and tempvars hold.
C2_MutatedValue_AlwaysFromSource ==
    \A i \in DOMAIN log :
        (/\ IsDispatch(log[i]) /\ log[i].ac /\ Ok(log[i])
         /\ HasOrigin(log[i].v) /\ MutationExisting(log[i].v))
        => log[i].path = "source"

\* C2 amended: a value with an origin and the mutation flag set that is
\* not a context-manager-decorated function is emitted through its origin
\* by every dispatcher call with caching enabled that finds neither
\* top_of_stack equal to the value nor a temp slot assigned to it, in
\* prefer-source mode or not; the call leaves top_of_stack cleared and does
\* not count a use, allocate a graph output or assign a temp slot.
C2_MutatedValue_FromSourceOnCacheMiss ==
    [][(/\ Stepped /\ IsDispatch(last') /\ last'.ac /\ Ok(last')
        /\ HasOrigin(last'.v) /\ MutationExisting(last'.v)
        /\ ValueTable[last'.v].kind # "ctxmgr"
        /\ top_of_stack # last'.v
        /\ tempvars[last'.v] \in {Absent, None})
         => /\ last'.path = "source"
            /\ top_of_stack' = None
            /\ output' = (__call__([Session EXCEPT !.top_of_stack = None],
                                   ValueTable[last'.v].source, TRUE)).output
            /\ UNCHANGED <<uses, graph_outputs, tempvars, nvars>>]_vars

\* the mutated tensor is read from its origin while prefer-source mode is off
C2_Witness ==
    /\ Len(log) >= 1
    /\ last.op = "restore_stack" /\ ~ModeOn(last) /\ Ok(last)
    /\ last.v = "tM" /\ last.path = "source"
    /\ output[Len(output)] = create_load_attr("f")

----------------------------------------------------------------------------
(* C3: graph-output slot allocation.                                       *)

graph_output_keys == {graph_outputs[i].key : i \in DOMAIN graph_outputs}

\* C3: across every step the entries already allocated are kept as they
\* are, the indices are 0..n-1 in order of first request with one entry per
\* identity key, and a direct add_graph_output for a key that has an entry
\* allocates nothing while one for a new key allocates exactly the next
\* index.
C3_GraphOutputSlots ==
    [][/\ \A i \in DOMAIN graph_outputs :
             i \in DOMAIN graph_outputs' /\ graph_outputs'[i] = graph_outputs[i]
       /\ \A i \in DOMAIN graph_outputs' : graph_outputs'[i].index = i - 1
       /\ \A i, j \in DOMAIN graph_outputs' :
             graph_outputs'[i].key = graph_outputs'[j].key => i = j
       /\ (Stepped /\ last'.op = "add_graph_output")
            => IF graph_outputs_key(last'.v) \in graph_output_keys
               THEN graph_outputs' = graph_outputs
               ELSE graph_outputs' =
                      Append(graph_outputs,
                             [key |-> graph_outputs_key(last'.v),
                              index |-> Len(graph_outputs),
                              variable |-> last'.v])]_vars

\* a second identity key, requested directly after a first one was
\* allocated by the dispatcher, got index 1
C3_Witness ==
    /\ Len(log) = 2
    /\ log[1].op = "call" /\ log[1].path = "graph"
    /\ last.op = "add_graph_output"
    /\ Len(graph_outputs) = 2
    /\ graph_outputs[2].index = 1
    /\ graph_outputs[1].key # graph_outputs[2].key

----------------------------------------------------------------------------
(* C4: top-of-stack invalidation.                                          *)

\* C4 as stated: every method other than the dispatcher that appends to the
\* stream (append_output, extend_output, load_graph_output, add_cache,
\* add_push_null, ...) leaves top_of_stack cleared.
C4_EveryEmissionClearsTos ==
    [][(/\ Stepped /\ Ok(last')
        /\ last'.op \notin {"call", "restore_stack"}
        /\ Len(output') > Len(output))
         => top_of_stack' = None]_vars

----------------------------------------------------------------------------
(* C5: dispatcher postcondition.                                           *)

\* C5: after a successful dispatcher call, top_of_stack is the value asked
\* for when the call emitted it by DUP_TOP, from its temp slot or by kind,
\* and is cleared when the call went through the source branch.
C5_DispatcherLeavesTos ==
    (Len(log) >= 1 /\ last.op \in {"call", "restore_stack"} /\ Ok(last))
    => /\ last.path \in {"dup", "temp", "const", "graph", "module", "struct", "source"}
       /\ (last.v \in Sources => last.path = "source")
       /\ IF last.path = "source" THEN top_of_stack = None
          ELSE top_of_stack = last.v

\* a numpy array was emitted around add_push_null on 3.13, which clears
\* top_of_stack midway
C5_Witness ==
    /\ Len(log) >= 1
    /\ last.op = "call" /\ Ok(last) /\ last.v = "np" /\ last.path = "graph"
    /\ version = 313
    /\ top_of_stack = "np"

----------------------------------------------------------------------------
(* C6: structural reuse.                                                   *)

\* two successive dispatcher calls, caching on, on a structural value that
\* has no origin and is registered in tempvars without a name
StructuralReuse(i) ==
    /\ i >= 2 /\ i <= Len(log)
    /\ Repeated(log[i - 1], log[i]) /\ Ok(log[i])
    /\ ValueTable[log[i].v].kind = "struct"
    /\ ~HasOrigin(log[i].v)
    /\ log[i - 1].slot0 = None
    /\ log[i - 1].tos0 # log[i].v

\* the first pass: the reconstruction (ending in the container's build
\* instruction), DUP_TOP, and a store into the slot now assigned to the value
FirstPassStores(i) ==
    /\ Len(Emitted(i)) >= 3
    /\ SubSeq(Emitted(i), Len(Emitted(i)) - 2, Len(Emitted(i))) =
         <<create_instruction("BUILD_LIST", Len(ValueTable[log[i].v].items), ""),
           create_dup_top,
           create_store(tempvars[log[i].v])>>
    /\ tempvars[log[i].v] \in co_varnames
    /\ tempvars[log[i].v] \notin InitVarnames

\* C6 as stated: the second pass is exactly one LOAD_FAST of the temp slot.
C6_SecondPassLoadsSlot ==
    \A i \in DOMAIN log :
        StructuralReuse(i)
        => /\ FirstPassStores(i - 1)
           /\ Emitted(i) = <<create_load(tempvars[log[i].v])>>

\* C6 amended: the first pass emits the reconstruction, DUP_TOP and a
\* STORE_FAST into a fresh temp slot; the second pass, coming directly
\* after, finds the value on top of the stack and emits exactly one DUP_TOP
\* (no LOAD_FAST of the slot).
C6_SecondPassDups ==
    \A i \in DOMAIN log :
        StructuralReuse(i)
        => /\ FirstPassStores(i - 1)
           /\ log[i - 1].path = "struct"
           /\ Emitted(i) = <<create_dup_top>>
           /\ log[i].path = "dup"

C6_Witness ==
    /\ StructuralReuse(2)
    /\ log[2].v = "lsT"
    /\ Len(output) = 5
    /\ output[4] = create_store("tmp_0")
    /\ output[5] = create_dup_top

----------------------------------------------------------------------------
(* C7: use counting.                                                       *)

\* C7 as stated: uses[v] grows by one on every dispatcher call that emits v
\* as a new value (constant, graph output, module object, structural) and
\* is unchanged by a call that emits v from its source, by DUP_TOP or from
\* its temp slot.
C7_UsesCountsNewValues ==
    [][(Stepped /\ last'.op = "call" /\ last'.v \in Vals /\ Ok(last'))
         => IF last'.path \in {"const", "graph", "module", "struct"}
            THEN uses'[last'.v] = uses[last'.v] + 1
            ELSE uses'[last'.v] = uses[last'.v]]_vars

----------------------------------------------------------------------------
(* C8: symbol validation.                                                  *)

LocalOps == {"create_load", "create_store", "store"}

CellOps == {"create_load_closure", "create_load_deref", "create_store_deref",
            "load_deref"}

\* the instruction reads or writes a local
NamesLocal(inst) == inst.opname \in {"LOAD_FAST", "STORE_FAST"}

\* the instruction reads or writes a cell or free variable
NamesCell(inst) == inst.opname \in {"LOAD_CLOSURE", "LOAD_DEREF", "STORE_DEREF"}

\* C8: a create_load / create_store / store of a name outside the locals,
\* a dispatcher temp-slot load of such a name, and a create_load_closure /
\* create_load_deref / create_store_deref / load_deref of a name outside
\* the cell and free variables end in an assertion error with the stream
\* and top_of_stack as they were; with a declared name they succeed; and
\* every local or cell instruction in the stream or returned names a
\* member of its symbol set.
C8_SymbolValidation ==
    [][Stepped =>
        /\ last'.op \in LocalOps
             => IF last'.v \in co_varnames THEN Ok(last')
                ELSE /\ last'.err = AssertionError /\ last'.ret = <<>>
                     /\ UNCHANGED <<output, top_of_stack>>
        /\ last'.op \in CellOps
             => IF last'.v \in cell_and_freevars THEN Ok(last')
                ELSE /\ last'.err = AssertionError /\ last'.ret = <<>>
                     /\ UNCHANGED <<output, top_of_stack>>
        /\ (/\ last'.op = "call" /\ last'.v \in Vals /\ last'.ac
            /\ top_of_stack # last'.v
            /\ tempvars[last'.v] \notin {Absent, None}
            /\ tempvars[last'.v] \notin co_varnames)
             => /\ last'.err = AssertionError
                /\ UNCHANGED <<output, top_of_stack>>
        /\ \A i \in DOMAIN output' :
             /\ NamesLocal(output'[i]) => output'[i].argval \in co_varnames'
             /\ NamesCell(output'[i]) => output'[i].argval \in cell_and_freevars
        /\ \A i \in DOMAIN last'.ret :
             /\ last'.op \in LocalOps => last'.ret[i].argval \in co_varnames
             /\ last'.op \in CellOps => last'.ret[i].argval \in cell_and_freevars]_vars

\* store of an undeclared name after a value was emitted: nothing moved
C8_Witness ==
    /\ Len(log) = 2
    /\ log[1].op = "call" /\ Ok(log[1])
    /\ last.op = "store" /\ last.v = "nope" /\ last.err = AssertionError
    /\ top_of_stack # None
    /\ Len(output) = last.at /\ Len(output) > 0

----------------------------------------------------------------------------
(* C9: null placement by add_push_null.                                    *)

\* the gen_fn of a logged add_push_null
GenOf(e) ==
    IF e.v = "" THEN GenItem(e.n)
    ELSE IF e.v \in Vals \cup Sources THEN GenValue(e.v)
    ELSE GenImport(e.v)

\* what gen_fn appends when it runs on the current session
Generated(gen_fn) ==
    SubSeq(run_gen_fn(IF version < 313 THEN clear_tos(Session) ELSE Session,
                      gen_fn).output,
           Len(output) + 1,
           Len(run_gen_fn(IF version < 313 THEN clear_tos(Session) ELSE Session,
                          gen_fn).output))

\* new is added with exactly one null push: in front of it on 3.11/3.12,
\* behind it on 3.13, as PUSH_NULL or as the bit of an instruction of
\* added that has a free one; nothing before 3.11
NullPlaced(added, new) ==
    IF version < 311 THEN new = added
    ELSE IF version < 313
    THEN \/ new = <<PUSH_NULL>> \o added
         \/ \E i \in DOMAIN added :
               inst_bit_free(added[i]) /\ new = set_inst_bit(added, i)
    ELSE \/ new = Append(added, PUSH_NULL)
         \/ /\ inst_bit_free(added[Len(added)])
            /\ new = set_inst_bit(added, Len(added))

\* C9: add_push_null keeps the stream it found as a prefix and follows it
\* with the instructions gen_fn generated, in their order, with one null
\* push placed according to the generation.
C9_NullPlacement ==
    [][(Stepped /\ last'.op = "add_push_null" /\ Ok(last'))
         => /\ Len(output') >= Len(output)
            /\ SubSeq(output', 1, Len(output)) = output
            /\ NullPlaced(Generated(GenOf(last')),
                          SubSeq(output', Len(output) + 1, Len(output')))]_vars

\* on 3.13 a PUSH_NULL follows a constant load, behind an earlier instruction
C9_Witness ==
    /\ Len(log) = 2
    /\ last.op = "add_push_null" /\ Ok(last) /\ last.v = "c5"
    /\ version = 313
    /\ last.at >= 1
    /\ output[Len(output)] = PUSH_NULL
    /\ output[Len(output) - 1] = create_load_const("5")

----------------------------------------------------------------------------
(* C10: generation consistency of load_function_name.                      *)

\* C10: from 3.11 on, running load_function_name(fn, True, k) on a stack of
\* k values leaves the callable and the null beneath the k values, which
\* keep their order: null below the callable on 3.11/3.12, above it on 3.13.
C10_CallableBelowArgs ==
    \A i \in DOMAIN log :
        (log[i].op = "load_function_name" /\ log[i].ac /\ version >= 311)
        => Exec(log[i].ret, Args(log[i].n)) =
             (IF version >= 313 THEN <<Atom(log[i].v), NULL>>
              ELSE <<NULL, Atom(log[i].v)>>) \o Args(log[i].n)

C10_Witness ==
    /\ Len(log) >= 1
    /\ last.op = "load_function_name" /\ last.ac /\ last.n = 2
    /\ version = 313
    /\ Len(last.ret) = 7
    /\ Exec(last.ret, Args(2)) = <<Atom("fn"), NULL, Atom("a1"), Atom("a2")>>

----------------------------------------------------------------------------
(* C11: the rotate fallback.                                               *)

\* C11: the instructions rot_n(n) returns, the fallback sequence where the
\* machine has no rotate of depth n and the native ones elsewhere, run on a
\* stack of n or more values leave it as a native rotate of depth n does:
\* the former top below the next n - 1 values, those in their order, the
\* deeper values untouched.
C11_FallbackRotates ==
    \A i \in DOMAIN log :
        log[i].op = "rot_n"
        => \A d \in 0..MaxDeeper :
              /\ Exec(log[i].ret, Args(log[i].n + d)) = Rotate(Args(log[i].n + d), log[i].n)
              /\ Rotate(Args(log[i].n + d), log[i].n) =
                   SubSeq(Args(log[i].n + d), 1, d)
                   \o <<Atom("a" \o ToString(log[i].n + d))>>
                   \o [j \in 1..(log[i].n - 1) |-> Atom("a" \o ToString(d + j))]

\* a rotation of depth 5 before 3.10 went through the helper call and moved
\* the top of seven values below the next four
C11_Witness ==
    /\ Len(log) >= 1
    /\ last.op = "rot_n" /\ last.n = 5 /\ version = 309
    /\ last.ret[1] = create_instruction("BUILD_TUPLE", 5, "")
    /\ last.ret[Len(last.ret)] = create_instruction("UNPACK_SEQUENCE", 5, "")
    /\ Exec(last.ret, Args(7)) =
         <<Atom("a1"), Atom("a2"), Atom("a7"), Atom("a3"), Atom("a4"),
           Atom("a5"), Atom("a6")>>

----------------------------------------------------------------------------
(* C12: closure construction on 3.11 / 3.12.                              *)

\* the swaps a rotation of depth n is made of from 3.11 on
Swaps(n) == [j \in 1..(n - 1) |-> create_instruction("SWAP", n + 1 - j, "")]

\* the closure-construction sequence for the two free variables of code2
ClosureSequence ==
    <<create_instruction("LOAD_CLOSURE", NoArg, "cell_a"),
      create_instruction("LOAD_CLOSURE", NoArg, "cell_b"),
      create_instruction("BUILD_TUPLE", 2, ""),
      create_instruction("LOAD_CONST", NoArg, "code2"),
      create_instruction("MAKE_FUNCTION", 8, "")>>

\* the instruction pushes a null, by itself or by its embedded bit
PushesNull(inst) ==
    \/ inst = PUSH_NULL
    \/ inst_has_op_bit(inst.opname) /\ inst.arg % 2 = 1

\* C12: on 3.11 and 3.12, make_function_with_closure with push_null=True
\* for a code template with two free variables, both cell or free
\* variables of the frame, succeeds and appends one PUSH_NULL, directly
\* followed by the closure construction (a closure load per free variable
\* in co_freevars order, BUILD_TUPLE 2, the code constant, MAKE_FUNCTION
\* with the closure flag) and then only the two rotations of depth
\* num_on_stack + 2; no other instruction pushes a null, and top_of_stack
\* is cleared when it returns.
C12_ClosureNullFirst ==
    (/\ Len(log) >= 1
     /\ last.op = "make_function_with_closure" /\ last.ac
     /\ last.v = "code2" /\ version \in {311, 312})
    => /\ Ok(last)
       /\ Emitted(Len(log)) =
            <<PUSH_NULL>> \o ClosureSequence
            \o Swaps(last.n + 2) \o Swaps(last.n + 2)
       /\ Cardinality({i \in DOMAIN Emitted(Len(log)) :
                          PushesNull(Emitted(Len(log))[i])}) = 1
       /\ top_of_stack = None

\* a closure built on 3.12 under two stacked values, after a constant was
\* left on top of the stack
C12_Witness ==
    /\ Len(log) = 2
    /\ log[1].op = "call" /\ log[1].v = "c5" /\ log[1].path = "const"
    /\ last.op = "make_function_with_closure" /\ last.ac
    /\ last.v = "code2" /\ last.n = 2 /\ version = 312
    /\ output[2] = PUSH_NULL
    /\ output[7] = create_instruction("MAKE_FUNCTION", 8, "")
    /\ Len(output) = 13
    /\ top_of_stack = None

----------------------------------------------------------------------------
(* C13: the reconstruction-unsupported error.                              *)

\* the last call asked the dispatcher for a value whose reconstruct routine
\* raises NotImplementedError, and no cache path applied
ReconstructRefused ==
    /\ Len(log) >= 1
    /\ IsDispatch(last)
    /\ ValueTable[last.v].kind = "unsupported"
    /\ ~(last.ac /\ last.tos0 = last.v)
    /\ ~(last.ac /\ last.slot0 \notin {Absent, None})

\* C13: a dispatcher call on a value whose reconstruct routine raises
\* NotImplementedError ends with the Unsupported error whose message names
\* the value; it appends what the routine emitted before it gave up and
\* nothing after it (no DUP_TOP or STORE_FAST for the value), does not set
\* top_of_stack to the value and leaves the value's tempvars entry as it
\* was, so the next dispatcher call on the value finds no cache entry and
\* fails in the same way.
C13_ReconstructUnsupported ==
    ReconstructRefused
    => /\ last.err = "Unsupported: reconstruct: " \o last.v
       /\ top_of_stack = last.v => last.tos0 = last.v
       /\ tempvars[last.v] = last.slot0
       /\ Emitted(Len(log)) =
            (IF last.tos0 = "c5" THEN <<create_dup_top>>
             ELSE <<create_load_const("5")>>)
       /\ \A j \in DOMAIN output : output[j].opname = "STORE_FAST" => j <= last.at
       /\ (/\ Len(log) >= 2
           /\ log[Len(log) - 1].op = "call" /\ log[Len(log) - 1].v = last.v)
            => /\ log[Len(log) - 1].err = last.err
               /\ last.tos0 # last.v
               /\ last.slot0 = log[Len(log) - 1].slot0

\* two calls, caching on, on the value that cannot be reconstructed, which
\* is registered in tempvars: both fail, the slot is still unassigned and
\* the second call found the item of the first on top of the stack
C13_Witness ==
    /\ Len(log) = 2
    /\ log[1].op = "call" /\ log[1].v = "bad" /\ log[1].ac
    /\ last.op = "call" /\ last.v = "bad" /\ last.ac
    /\ last.err = "Unsupported: reconstruct: bad"
    /\ tempvars["bad"] = None
    /\ top_of_stack = "c5"
    /\ output = <<create_load_const("5"), create_dup_top>>
    /\ uses["bad"] = 2

----------------------------------------------------------------------------
(* C14: the stream is append-only.                                         *)

\* C14: every method call, failed ones included, leaves the stream it found
\* as a prefix of the stream it returns with, so that the instructions of
\* successive calls lie in the stream in the order of the calls; this holds
\* for the dispatcher branches that run add_push_null, which cuts the
\* instructions of its generator out of the stream and puts them back with
\* the null.
C14_AppendOnly ==
    [][/\ Len(output') >= Len(output)
       /\ SubSeq(output', 1, Len(output)) = output
       /\ Stepped => /\ last'.at = Len(output)
                     /\ \A i \in DOMAIN log : log'[i] = log[i] /\ log[i].at <= last'.at]_vars

\* on 3.12 the dispatcher emitted a numpy array behind a constant: the
\* import of the helper was cut out and put back with its null bit set
\* (LOAD_GLOBAL utils) and the constant emitted before is still in front
C14_Witness ==
    /\ Len(log) = 2
    /\ log[1].op = "call" /\ log[1].v = "c5"
    /\ last.op = "call" /\ last.v = "np" /\ Ok(last)
    /\ version = 312
    /\ last.at = 1
    /\ output[1] = create_load_const("5")
    /\ \E j \in 2..Len(output) :
          output[j].opname \in {"LOAD_GLOBAL", "LOAD_ATTR"} /\ output[j].arg = 1

----------------------------------------------------------------------------
(* C15: emission of tensor-like values.                                    *)

\* the entry is a successful dispatcher call that emitted a plain
\* tensor-like value by kind: a tensor, or a float symbol under export
PlainTensor(e) ==
    /\ IsDispatch(e) /\ Ok(e) /\ e.path = "graph"
    /\ \/ ValueTable[e.v].kind = "tensor"
       \/ ValueTable[e.v].kind = "symfloat" /\ export

\* the read of slot index of the output collection
LoadSlot(index) ==
    <<create_instruction("LOAD_FAST", NoArg, graph_output_var),
      create_instruction("LOAD_CONST", index, "int"),
      create_instruction("BINARY_SUBSCR", NoArg, "")>>

\* C15: the first call of a session, when it emits a plain tensor-like
\* value by kind, allocates graph-output index 0 for it and appends exactly
\* the load of the output collection, the constant 0 and the subscript
\* read; a by-kind call that follows it on a tensor-like value with another
\* identity key allocates index 1 and appends the same three instructions
\* with the constant 1.
C15_TensorSlots ==
    (Len(log) >= 1 /\ PlainTensor(log[1]))
    => /\ Emitted(1) = LoadSlot(0)
       /\ graph_outputs[1] =
            [key |-> graph_outputs_key(log[1].v), index |-> 0, variable |-> log[1].v]
       /\ (/\ Len(log) >= 2 /\ PlainTensor(log[2])
           /\ graph_outputs_key(log[2].v) # graph_outputs_key(log[1].v))
            => /\ Emitted(2) = LoadSlot(1)
               /\ Len(graph_outputs) >= 2
               /\ graph_outputs[2] =
                    [key |-> graph_outputs_key(log[2].v), index |-> 1,
                     variable |-> log[2].v]

\* two distinct tensors, one after the other
C15_Witness ==
    /\ Len(log) = 2
    /\ PlainTensor(log[1]) /\ log[1].v = "t1"
    /\ PlainTensor(log[2]) /\ log[2].v = "t2"
    /\ Len(output) = 6
    /\ output[2] = create_load_const_int(0)
    /\ output[5] = create_load_const_int(1)
    /\ top_of_stack = "t2"

----------------------------------------------------------------------------
(* C16: the origin selection rule.                                         *)

\* the source a dispatcher call on src reconstructs
Overridden(src) ==
    IF src \in DOMAIN overridden_sources THEN overridden_sources[src] ELSE src

RECURSIVE SourceLoads(_)

\* the instructions that read a source: the local or global load, or the
\* loads of the base followed by the attribute load
SourceLoads(src) ==
    CASE SourceTable[Overridden(src)].kind = "local" ->
           <<create_instruction("LOAD_FAST", NoArg, SourceTable[Overridden(src)].name)>>
      [] SourceTable[Overridden(src)].kind = "global" ->
           <<create_bit_instruction("LOAD_GLOBAL", SourceTable[Overridden(src)].name)>>
      [] SourceTable[Overridden(src)].kind = "attr" ->
           SourceLoads(SourceTable[Overridden(src)].base)
           \o <<create_bit_instruction("LOAD_ATTR", SourceTable[Overridden(src)].name)>>

\* neither cache path applied to the call: the value was not on top of the
\* stack and had no temp slot assigned
NoCacheHit(e) == e.tos0 # e.v /\ e.slot0 \in {Absent, None}

\* the rule of lines 164-191
OriginSelected(e) ==
    /\ HasOrigin(e.v)
    /\ e.ac
    /\ ValueTable[e.v].kind # "ctxmgr"
    /\ (MutationExisting(e.v) \/ ModeOn(e))

\* C16: a successful dispatcher call on a tracked value to which no cache
\* path applied read the value's origin (and emitted exactly the origin's
\* loads) if and only if the value has an origin, caching was allowed, the
\* value is no context-manager-decorated function, and its mutation flag
\* is set or prefer-source mode was on; in every other case it took the
\* branch of the value's kind and emitted no load of the origin.
C16_OriginSelection ==
    \A i \in DOMAIN log :
        (IsDispatch(log[i]) /\ Ok(log[i]) /\ NoCacheHit(log[i]))
        => IF OriginSelected(log[i])
           THEN /\ log[i].path = "source"
                /\ Emitted(i) = SourceLoads(ValueTable[log[i].v].source)
           ELSE /\ log[i].path = kind_path(log[i].v)
                /\ log[i].path # "source"
                /\ HasOrigin(log[i].v)
                     => \A j \in DOMAIN Emitted(i), k \in DOMAIN SourceLoads(ValueTable[log[i].v].source) :
                           Emitted(i)[j] # SourceLoads(ValueTable[log[i].v].source)[k]

\* with prefer-source mode off a constant that has an origin was emitted as
\* a constant, and then a context-manager-decorated function with an
\* origin and the mutation flag was rebuilt, with caching allowed
C16_Witness ==
    /\ Len(log) = 2
    /\ log[1].op = "restore_stack" /\ log[1].v = "cS" /\ ~ModeOn(log[1])
    /\ log[1].path = "const"
    /\ last.op = "call" /\ last.v = "cm" /\ last.ac /\ last.path = "struct"
    /\ output[1] = create_load_const("7")
    /\ NoCacheHit(log[1]) /\ NoCacheHit(last)

----------------------------------------------------------------------------
(* C17: dispatch on a source.                                              *)

\* C17: a dispatcher call on a source that succeeds appends exactly the
\* loads of the source its override names, or of the source itself when it
\* has none (no DUP_TOP among them), leaves top_of_stack cleared and
\* changes none of uses, tempvars, the graph outputs and the temp names;
\* one that fails has appended nothing and changed none of them; and a
\* second call on the same source, directly after a first, appends the
\* same loads again.
C17_SourceDispatch ==
    [][(Stepped /\ last'.op = "call" /\ last'.v \in Sources)
         => IF Ok(last')
            THEN /\ output' = output \o SourceLoads(last'.v)
                 /\ \A j \in DOMAIN SourceLoads(last'.v) :
                       SourceLoads(last'.v)[j] # create_dup_top
                 /\ last'.path = "source"
                 /\ top_of_stack' = None
                 /\ UNCHANGED <<uses, tempvars, graph_outputs, nvars>>
                 /\ (Len(log) >= 1 /\ last.op = "call" /\ last.v = last'.v /\ Ok(last))
                      => output' = output \o SubSeq(output, last.at + 1, Len(output))
            ELSE UNCHANGED <<output, top_of_stack, uses, tempvars, graph_outputs, nvars>>]_vars

\* the overridden local y, asked for twice in a row, was read from x twice
C17_Witness ==
    /\ Len(log) = 2
    /\ log[1].op = "call" /\ log[1].v = "L:y" /\ Ok(log[1])
    /\ last.op = "call" /\ last.v = "L:y" /\ Ok(last)
    /\ output = <<create_load("x"), create_load("x")>>
    /\ top_of_stack = None

----------------------------------------------------------------------------
(* C18: add_push_null and the top-of-stack cache.                          *)

\* C18: when add_push_null returns on 3.13, top_of_stack is cleared; before
\* 3.13 the generator ran with top_of_stack cleared, so that the first
\* instruction it emitted (the one behind the PUSH_NULL, if one was put in
\* front) is not a DUP_TOP, and a generator that asks the dispatcher for
\* the value that was on top of the stack emits no DUP_TOP at all.
C18_NullAndCache ==
    (Len(log) >= 1 /\ last.op = "add_push_null" /\ Ok(last))
    => IF version >= 313 THEN top_of_stack = None
       ELSE /\ Len(Emitted(Len(log))) >= 1
            /\ Emitted(Len(log))[1] # create_dup_top
            /\ Emitted(Len(log))[1] = PUSH_NULL
                 => /\ Len(Emitted(Len(log))) >= 2
                    /\ Emitted(Len(log))[2] # create_dup_top
            /\ (last.v \in Vals /\ last.v = last.tos0)
                 => \A j \in DOMAIN Emitted(Len(log)) :
                       Emitted(Len(log))[j] # create_dup_top

\* on 3.12 the constant that was on top of the stack was asked for as the
\* callable: it was loaded again behind the PUSH_NULL, not duplicated
C18_Witness ==
    /\ Len(log) = 2
    /\ log[1].op = "call" /\ log[1].v = "c5"
    /\ last.op = "add_push_null" /\ last.v = "c5" /\ last.tos0 = "c5" /\ Ok(last)
    /\ version = 312
    /\ output = <<create_load_const("5"), PUSH_NULL, create_load_const("5")>>
    /\ top_of_stack = "c5"

----------------------------------------------------------------------------
(* C19: caching disabled.                                                  *)

Last(seq) == seq[Len(seq)]

\* the instruction that ends the by-kind emission of a value
ByKindLast(v) ==
    CASE ValueTable[v].kind = "const" ->
           create_instruction("LOAD_CONST", NoArg, ValueTable[v].pyconst)
      [] ValueTable[v].kind = "tensor" \/ (ValueTable[v].kind = "symfloat" /\ export) ->
           create_instruction("BINARY_SUBSCR", NoArg, "")
      [] ValueTable[v].kind = "tfoverride" -> Last(create_call_function(2))
      [] ValueTable[v].kind = "numpy" -> Last(create_call_function(1))
      [] ValueTable[v].kind = "unspec_unwrap" \/ (ValueTable[v].kind = "symfloat" /\ ~export) ->
           Last(create_call_function(0))
      [] ValueTable[v].kind = "module" ->
           create_bit_instruction("LOAD_ATTR", Last(ValueTable[v].key))
      [] OTHER ->
           create_instruction("BUILD_LIST", Len(ValueTable[v].items), "")

\* C19: a successful dispatcher call on a tracked value with
\* allow_cache=False took the branch of the value's kind, whatever
\* top_of_stack, the value's temp slot, its origin, its mutation flag and
\* prefer-source mode were: it emitted neither a lone DUP_TOP nor a load
\* of the value's temp slot nor a load of its origin, its emission ends
\* with the last instruction of the by-kind branch (no DUP_TOP or store
\* behind it), the value's tempvars entry is as it was, and top_of_stack
\* is the value.
C19_CachingDisabled ==
    (Len(log) >= 1 /\ last.op = "call" /\ last.v \in Vals /\ ~last.ac /\ Ok(last))
    => /\ last.path = kind_path(last.v)
       /\ last.path \notin {"dup", "temp", "source"}
       /\ top_of_stack = last.v
       /\ tempvars[last.v] = last.slot0
       /\ Len(Emitted(Len(log))) >= 1
       /\ Last(Emitted(Len(log))) = ByKindLast(last.v)
       /\ Emitted(Len(log)) # <<create_dup_top>>
       /\ Emitted(Len(log)) # <<create_instruction("LOAD_FAST", NoArg, last.slot0)>>
       /\ HasOrigin(last.v)
            => \A j \in DOMAIN Emitted(Len(log)),
                  k \in DOMAIN SourceLoads(ValueTable[last.v].source) :
                  Emitted(Len(log))[j] # SourceLoads(ValueTable[last.v].source)[k]

\* a list with an assigned temp slot was rebuilt, not loaded from the slot
C19_Witness ==
    /\ Len(log) = 2
    /\ log[1].op = "add_cache" /\ log[1].v = "lst"
    /\ last.op = "call" /\ last.v = "lst" /\ ~last.ac /\ Ok(last)
    /\ last.slot0 = "tmp_0" /\ tempvars["lst"] = "tmp_0"
    /\ Last(output) = create_instruction("BUILD_LIST", 2, "")
    /\ top_of_stack = "lst"

----------------------------------------------------------------------------
(* C20: prefer-source mode is scoped by restore_stack.                     *)

\* the mode under which the values of the restore_stack being logged are
\* emitted: the mode before the call and every flag given on the way in
ModeInside(e) ==
    /\ value_from_source
    /\ e.n = 1
    /\ e.op = "restore_stack_nested" => e.ac

\* C20: a restore_stack, alone or nested in another, returns with
\* value_from_source as it was before the call, also when the emission
\* raised; and while it emits, the mode is the conjunction of the mode
\* before the call and the flags given: a constant that has an origin and
\* hits no cache is read from its origin when all of them are true and is
\* emitted as a constant as soon as one is false, so that an inner
\* restore_stack(value_from_source=True) does not turn the mode back on.
C20_ModeScoped ==
    [][(Stepped /\ last'.op \in {"restore_stack", "restore_stack_nested"})
         => /\ value_from_source' = value_from_source
            /\ (last'.v = "bad") => ~Ok(last')
            /\ (last'.v = "cS" /\ NoCacheHit(last'))
                 => /\ Ok(last')
                    /\ IF ModeInside(last')
                       THEN output' = output \o <<create_load("x")>>
                       ELSE output' = output \o <<create_load_const("7")>>]_vars

\* an inner restore_stack(value_from_source=True) under an outer one with
\* False emitted the constant, and the mode is on again afterwards
C20_Witness ==
    /\ Len(log) >= 1
    /\ last.op = "restore_stack_nested" /\ last.v = "cS"
    /\ ~last.ac /\ last.n = 1 /\ Ok(last)
    /\ Last(output) = create_load_const("7")
    /\ value_from_source


----------------------------------------------------------------------------
(* C21: temp-slot single assignment.                                       *)

\* tempvars maps the value to a slot name
HasSlot(tv, v) == tv[v] \notin {Absent, None}

\* the instruction loads a temp slot, not a local of the frame
TempLoad(inst) == inst.opname = "LOAD_FAST" /\ inst.argval \notin InitVarnames

\* C21: through any sequence of dispatcher calls a value receives a slot
\* name at most once: a name in tempvars is never changed or reset, a
\* value that was not registered never gets one, a new name is a fresh
\* variable and no two values share one; every STORE_FAST in the stream
\* is stored once, directly after a DUP_TOP that follows the BUILD_LIST
\* ending the reconstruction of the value that owns the slot; every
\* temp-slot LOAD_FAST names a slot stored earlier in the stream, and the
\* load the dispatcher emits for a cached value names that value's slot.
C21_TempSlotOnce ==
    [][ /\ \A v \in Vals :
            /\ HasSlot(tempvars, v) => tempvars'[v] = tempvars[v]
            /\ tempvars[v] = Absent => tempvars'[v] = Absent
            /\ tempvars'[v] # tempvars[v] =>
                   /\ tempvars'[v] \notin co_varnames
                   /\ tempvars'[v] \in co_varnames'
        /\ \A v, w \in Vals :
               HasSlot(tempvars', v) /\ tempvars'[v] = tempvars'[w] => v = w
        /\ \A j \in DOMAIN output' :
               output'[j].opname = "STORE_FAST" =>
                   /\ j >= 3
                   /\ output'[j - 1] = create_dup_top
                   /\ \E v \in Vals :
                          /\ tempvars'[v] = output'[j].argval
                          /\ output'[j - 2] =
                                 create_instruction("BUILD_LIST",
                                                    Len(ValueTable[v].items), "")
                   /\ \A k \in DOMAIN output' : output'[k] = output'[j] => k = j
        /\ \A j \in DOMAIN output' :
               TempLoad(output'[j]) =>
                   \E k \in 1..(j - 1) : output'[k] = create_store(output'[j].argval)
        /\ Stepped /\ Ok(last') /\ last'.path = "temp" =>
               /\ HasSlot(tempvars, last'.v)
               /\ output' = Append(output, create_load(tempvars[last'.v]))
      ]_vars

\* lsT was rebuilt and stored into tmp_0 by the first call; the second
\* call rebuilds pair, whose first lsT is on top of the stack and whose
\* second lsT is loaded from tmp_0; the slot of lsT is unchanged
C21_Witness ==
    /\ Len(log) = 2
    /\ log[1].op = "call" /\ log[1].v = "lsT" /\ log[1].ac /\ Ok(log[1])
    /\ last.op = "call" /\ last.v = "pair" /\ last.ac /\ Ok(last)
    /\ tempvars["lsT"] = "tmp_0"
    /\ Len(output) = 8
    /\ output[3] = create_dup_top
    /\ output[4] = create_store("tmp_0")
    /\ output[7] = create_load("tmp_0")
    /\ \A j \in DOMAIN output : output[j].opname = "STORE_FAST" => j = 4


----------------------------------------------------------------------------
(* C22: graph_output_vars() lists the recorded values by index.            *)

\* C22: after every step graph_output_vars() has one element per
\* allocated index, the indices are 0..n-1, and the element at position
\* index (counted from 0) is the value recorded in the entry with that
\* index; the elements already listed are kept, so the element of a key
\* is the value of the first request for it: a direct add_graph_output
\* for a key that has an entry leaves the list alone and one for a new key
\* appends its value; and the index a dispatcher call loads for a plain
\* tensor-like value designates the list element with that value's key.
C22_OutputListMatches ==
    [][ /\ Len(graph_output_vars(Session')) = Len(graph_outputs')
        /\ {graph_outputs'[i].index : i \in DOMAIN graph_outputs'}
               = 0..(Len(graph_output_vars(Session')) - 1)
        /\ \A i \in DOMAIN graph_outputs' :
               graph_output_vars(Session')[graph_outputs'[i].index + 1]
                   = graph_outputs'[i].variable
        /\ \A i \in DOMAIN graph_output_vars(Session) :
               /\ i \in DOMAIN graph_output_vars(Session')
               /\ graph_output_vars(Session')[i] = graph_output_vars(Session)[i]
        /\ (Stepped /\ last'.op = "add_graph_output") =>
               IF \E i \in DOMAIN graph_outputs :
                      graph_outputs[i].key = graph_outputs_key(last'.v)
               THEN graph_output_vars(Session') = graph_output_vars(Session)
               ELSE graph_output_vars(Session')
                        = Append(graph_output_vars(Session), last'.v)
        /\ (Stepped /\ PlainTensor(last')) =>
               \E k \in 0..(Len(graph_output_vars(Session')) - 1) :
                   /\ SubSeq(output', Len(output) + 1, Len(output')) = LoadSlot(k)
                   /\ graph_outputs_key(graph_output_vars(Session')[k + 1])
                          = graph_outputs_key(last'.v)
                   /\ k >= Len(graph_output_vars(Session)) =>
                          graph_output_vars(Session')[k + 1] = last'.v
      ]_vars

\* t2 was requested directly and got index 0; the dispatcher then emitted
\* t1b, allocated index 1 for it and loaded slot 1
C22_Witness ==
    /\ Len(log) = 2
    /\ log[1].op = "add_graph_output" /\ log[1].v = "t2"
    /\ last.op = "call" /\ last.v = "t1b" /\ PlainTensor(last)
    /\ graph_output_vars(Session) = <<"t2", "t1b">>
    /\ graph_outputs[2].index = 1
    /\ Emitted(2) = LoadSlot(1)

====
